---- MODULE Spec2Model ----
(***************************************************************************)
(* Model of the batch log retrieval engine (lib/batch_log_fetcher.py) and  *)
(* of the pipeline watch loop (monitor_status.py, lib/pipeline_analyzer.py).*)
(*                                                                         *)
(* A text is a sequence of one-character strings; NL is the line break.    *)
(* Python's None is the value None below (for a text: NoneText).           *)
(***************************************************************************)
EXTENDS Integers, Sequences, FiniteSets, TLC

\* ------------------------------------------------------------------ bounds
MaxJobs == 3
MaxParallel == 2
MaxWatchJobs == 2
MaxTicks == 5
MaxRemoteChanges == 3
MaxPatternJobs == 3
MaxTextLen == 3
MaxTail == 2
MaxContext == 2
MaxCliJobs == 2

\* -------------------------------------------------------- program constants
\* "if no_match_iterations >= 5"
NoMatchLimit == 5

\* "if args.parallel > 10" of get_logs.py parse_args
ParallelCeiling == 10

\* the same test with the ceiling one higher
ParallelTooHighByTwo(p) == p > ParallelCeiling + 1

\* "if args.parallel > 10": parser.error, which exits
ParallelTooHigh(p) == p > ParallelCeiling

\* the same test with > for >=
GraceExpiredStrict(count) == count > NoMatchLimit

\* "if no_match_iterations >= 5": the grace window for jobs to appear is over
GraceExpired(count) == count >= NoMatchLimit

\* ------------------------------------------------------------- text values
NL == "\n"
None == "None"
NoneText == <<"<None>">>

RECURSIVE SplitFrom(_, _, _)
SplitFrom(text, i, cur) ==
  IF i > Len(text) THEN <<cur>>
  ELSE IF text[i] = NL THEN <<cur>> \o SplitFrom(text, i + 1, <<>>)
  ELSE SplitFrom(text, i + 1, Append(cur, text[i]))

\* str.split('\n'): "" gives [""], "a\n" gives ["a", ""]
Split(text) == SplitFrom(text, 1, <<>>)

RECURSIVE Join(_)
\* '\n'.join(lines)
Join(lines) ==
  IF Len(lines) = 0 THEN <<>>
  ELSE IF Len(lines) = 1 THEN lines[1]
  ELSE lines[1] \o <<NL>> \o Join(Tail(lines))

\* lines[:n], the first lines instead of the last
LastLinesHead(lines, n) ==
  IF n >= Len(lines) THEN lines ELSE SubSeq(lines, 1, n)

\* lines[-n:] for n > 0
LastLines(lines, n) ==
  IF n >= Len(lines) THEN lines
  ELSE SubSeq(lines, Len(lines) - n + 1, Len(lines))

\* str.lower() on the characters of the model's alphabet
Lower(c) == IF c = "E" THEN "e" ELSE c

\* A grep pattern is one literal character, or "(" which re cannot compile.
PatternCompiles(pattern) == pattern # "("

CharMatches(pattern, c, ignore_case) ==
  IF ignore_case THEN Lower(c) = Lower(pattern) ELSE c = pattern

\* re.search(pattern, line, flags) is not None, for a pattern that compiles
ReSearch(pattern, line, ignore_case) ==
  \E i \in 1..Len(line) : CharMatches(pattern, line[i], ignore_case)

\* len(re.findall(pattern, text, flags)), for a pattern that compiles
ReFindallCount(pattern, text, ignore_case) ==
  Cardinality({i \in 1..Len(text) : CharMatches(pattern, text[i], ignore_case)})

\* the filters dict: tail = 0 and grep = None are the absent (falsy) values
NoFilters == [tail |-> 0, grep |-> None, ignore_case |-> FALSE, context |-> 0]

HasFilters(filters) == filters.tail # 0 \/ filters.grep # None

\* the grep step keeping only the lines at distance context from a match
GrepIndicesRing(lines, filters) ==
  LET hit(i) == ReSearch(filters.grep, lines[i], filters.ignore_case)
  IN {j \in 1..Len(lines) :
        \E i \in 1..Len(lines) :
          hit(i) /\ (j = i - filters.context \/ j = i + filters.context)}

\* indices of the lines kept by the grep step (context > 0: union of windows)
GrepIndices(lines, filters) ==
  LET hit(i) == ReSearch(filters.grep, lines[i], filters.ignore_case)
  IN IF filters.context > 0
     THEN {j \in 1..Len(lines) :
             \E i \in 1..Len(lines) :
               hit(i) /\ j >= i - filters.context /\ j <= i + filters.context}
     ELSE {i \in 1..Len(lines) : hit(i)}

RECURSIVE PickLines(_, _, _)
\* [lines[i] for i in sorted(indices)]
PickLines(lines, indices, i) ==
  IF i > Len(lines) THEN <<>>
  ELSE (IF i \in indices THEN <<lines[i]>> ELSE <<>>) \o PickLines(lines, indices, i + 1)

\* _apply_filters raises re.error at the first re.search of a bad pattern
ApplyFiltersRaises(logs, filters) ==
  /\ logs # <<>>
  /\ filters.grep # None
  /\ ~PatternCompiles(filters.grep)

\* _apply_filters, when it does not raise
ApplyFilters(logs, filters) ==
  IF logs = <<>> THEN logs
  ELSE LET all == Split(logs)
           tailed == IF filters.tail # 0 THEN LastLines(all, filters.tail) ELSE all
           kept == IF filters.grep # None
                   THEN PickLines(tailed, GrepIndices(tailed, filters), 1)
                   ELSE tailed
       IN Join(kept)

\* the result dict as fetch_single_log initialises it
EmptyResult(job_id) ==
  [job_id |-> job_id, logs |-> NoneText, log_lines |-> 0, log_size_bytes |-> 0,
   error |-> None, error_matches |-> 0]

\* what full_job.trace().decode('utf-8') gives: a text, or an exception
TraceFails(trace) == trace = NoneText

\* fetch_single_log(job, filters), trace being what the remote returns
fetch_single_log(job_id, trace, filters) ==
  LET result == EmptyResult(job_id)
  IN IF TraceFails(trace) THEN [result EXCEPT !.error = "fetch failed"]
     ELSE IF HasFilters(filters) /\ ApplyFiltersRaises(trace, filters)
     THEN [result EXCEPT !.error = "re.error"]
     ELSE LET logs == IF HasFilters(filters) THEN ApplyFilters(trace, filters) ELSE trace
              filled == [result EXCEPT
                           !.logs = logs,
                           !.log_lines = IF logs # <<>> THEN Len(Split(logs)) ELSE 0,
                           !.log_size_bytes = IF logs # <<>> THEN Len(logs) ELSE 0]
          IN IF HasFilters(filters) /\ filters.grep # None
             THEN IF PatternCompiles(filters.grep)
                  THEN [filled EXCEPT !.error_matches =
                          ReFindallCount(filters.grep, logs, filters.ignore_case)]
                  ELSE [filled EXCEPT !.error = "re.error"]
             ELSE filled

\* ---------------------------------------------------------------- variables
VARIABLES
  jobs,         \* fetch_logs_batch: the input job list (job ids, in input order)
  parallel,     \* its argument parallel
  skip_empty,   \* its argument skip_empty
  filters,      \* its argument filters
  bpc,          \* where the calling thread is: "submit", "collect", "done"
  submitted,    \* how many jobs executor.submit was called for
  queue,        \* the executor's work queue (positions in jobs)
  wjob,         \* per worker thread: the position of the job it runs, 0 when idle
  wres,         \* per worker thread: what fetch_single_log returned to it
  wphase,       \* per worker thread: "idle", "fetch" (in fetch_single_log), "lock"
                \* (waiting for the lock), "locked" (inside "with lock")
  wload,        \* per worker thread: the progress["completed"] its += has loaded
  futures,      \* per job position: the future's result, or Pending
  progress,     \* progress["completed"]
  job_results,  \* positions in jobs, in the order as_completed yields them
  results,      \* the dict fetch_logs_batch returns (NoResults before)
  stalled,      \* the position in jobs whose trace() call never returns (0: none)
  fpc,                  \* filtering one log: "idle", "call", "done", "retailed"
  fpath,                \* which code filters it: "batch" (fetch_single_log) or
                        \* "single" (handle_single_job of get_logs.py)
  raw_logs,             \* the decoded trace it is given
  fargs,                \* the filters: tail, grep, ignore_case, context
  fresult,              \* fetch_single_log: the result dict (Pending before)
  shown,                \* handle_single_job: the text it outputs (NoneText: none)
  matching_indices,     \* the line positions the grep step kept in the last call
  fcalls,               \* how many times the filters were run on raw_logs
  retail,               \* the output after the tail step was applied to it again
  args,                 \* get_logs.py main: the parsed command line
  cpc,                  \* get_logs.py main: where the batch run is
  net_calls,            \* number of calls to the GitLab API issued by main
  writes,               \* the write_text calls of save_logs_to_files, in order
  dirs,                 \* the directories under and with output_dir that exist,
                        \* and whether a mkdir has raised
  manifest,             \* what save_manifest dumped (NoManifest before)
  watch_pattern,        \* main: args.watch_pattern (NoPattern without the option)
  rpipe,                \* the remote: the pipeline's status
  rjobs,                \* the remote: each job's status, "absent" before it exists
  wpc,                  \* main: where the watch loop is
  status,               \* monitor_pipeline: pipeline.status as read
  all_jobs,             \* monitor_pipeline: the job list as read
  changed_jobs,         \* monitor_pipeline: the transitions of this tick
  previous_jobs,        \* main: the snapshot of the tick before (NoSnapshot: None)
  current_jobs,         \* main: the snapshot of this tick
  no_match_iterations,  \* main
  iteration,            \* main
  all_complete,         \* main: what check_pattern_completion returned
  stats,                \* main: what check_pattern_completion returned
  outcome,              \* which end message the loop printed ("none" so far)
  reads,                \* number of reads of remote state issued
  sleeps,               \* number of calls of time.sleep
  remote_changes,       \* number of status changes of the remote so far
  reports,              \* number of reports monitor_pipeline has completed
  tick_jobs,            \* the job list the last get_all_jobs of monitor_pipeline
                        \* returned, as a snapshot (NoSnapshot before the first)
  no_match_run          \* number of ticks in a row, up to now, whose pattern check
                        \* read a job list with no job name matching the pattern

batchVars == <<jobs, parallel, skip_empty, filters, bpc, submitted, queue, wjob,
               wres, wphase, wload, futures, progress, job_results, results, stalled>>

filterVars == <<fpc, fpath, raw_logs, fargs, fresult, shown, matching_indices, fcalls,
                retail>>

cliVars == <<args, cpc, net_calls, writes, manifest, dirs>>

watchVars == <<watch_pattern, rpipe, rjobs, wpc, status, all_jobs, changed_jobs,
               previous_jobs, current_jobs, no_match_iterations, iteration,
               all_complete, stats, outcome, reads, sleeps, remote_changes,
               reports, tick_jobs, no_match_run>>

vars == <<batchVars, watchVars, filterVars, cliVars>>

\* ------------------------------------------------ values of the watch loop
NoPattern == <<"<None>">>
\* a snapshot dict, or None
NoSnapshot == [is_none |-> TRUE, jobs |-> <<>>]

WatchJobIds == 1..MaxWatchJobs

NoStats == [total |-> 0, completed |-> 0, terminal_jobs |-> <<>>,
            non_terminal_jobs |-> <<>>, error |-> None]

\* the watch loop is not run
WatchNotStarted ==
  /\ watch_pattern = NoPattern
  /\ rpipe = "pending"
  /\ rjobs = [id \in WatchJobIds |-> "absent"]
  /\ wpc = "stopped"
  /\ status = None
  /\ all_jobs = <<>>
  /\ changed_jobs = <<>>
  /\ previous_jobs = NoSnapshot
  /\ current_jobs = NoSnapshot
  /\ no_match_iterations = 0
  /\ iteration = 0
  /\ all_complete = FALSE
  /\ stats = NoStats
  /\ outcome = "none"
  /\ reads = 0
  /\ sleeps = 0
  /\ remote_changes = 0
  /\ no_match_run = 0
  /\ reports = 0
  /\ tick_jobs = NoSnapshot

\* ------------------------------------------------------- fetch_logs_batch
\* the traces the remote serves in a batch run (NoneText: the fetch raises)
BatchTraces == {<<>>, <<"e">>, <<"a", NL, "E">>, NoneText}

BatchFilters ==
  {NoFilters,
   [tail |-> 1, grep |-> None, ignore_case |-> FALSE, context |-> 0],
   [tail |-> 0, grep |-> "e", ignore_case |-> FALSE, context |-> 0],
   [tail |-> 0, grep |-> "(", ignore_case |-> FALSE, context |-> 0]}

Pending == [job_id |-> 0, logs |-> NoneText, log_lines |-> 0, log_size_bytes |-> 0,
            error |-> None, error_matches |-> 0]

NoResults == [jobs |-> <<>>, statistics |-> [total_jobs |-> 0, jobs_processed |-> 0,
              jobs_skipped |-> 0, jobs_failed |-> 0, total_log_size_bytes |-> 0,
              total_lines |-> 0]]

\* worker threads that can exist in the model (a superset of the pool)
Threads == 1..(MaxJobs + MaxParallel)

\* a pool sized by the job list instead of by the argument
PoolSizePerJob == Len(jobs)

\* ThreadPoolExecutor(max_workers=parallel)
PoolSize == parallel

\* truthiness of result["error"]
Truthy(error) == error # None /\ error # ""

RECURSIVE ProcessResultsNoContinue(_, _, _)
\* the same loop with the "continue" of the skip branch missing
ProcessResultsNoContinue(order, res, acc) ==
  IF order = <<>> THEN acc
  ELSE LET result == res[Head(order)]
           st == acc.statistics
           skip == skip_empty /\ result.logs = NoneText
       IN ProcessResultsNoContinue(Tail(order), res,
            [jobs |-> Append(acc.jobs, result),
             statistics |-> [st EXCEPT
               !.jobs_skipped = IF skip THEN @ + 1 ELSE @,
               !.jobs_failed = IF Truthy(result.error) THEN @ + 1 ELSE @,
               !.jobs_processed = @ + 1,
               !.total_log_size_bytes = @ + result.log_size_bytes,
               !.total_lines = @ + result.log_lines]])

RECURSIVE ProcessResultsLostUpdate(_, _, _)
\* the same loop with the two totals assigned instead of added to
ProcessResultsLostUpdate(order, res, acc) ==
  IF order = <<>> THEN acc
  ELSE LET result == res[Head(order)]
           st == acc.statistics
       IN IF skip_empty /\ result.logs = NoneText
          THEN ProcessResultsLostUpdate(Tail(order), res,
                 [acc EXCEPT !.statistics.jobs_skipped = st.jobs_skipped + 1])
          ELSE ProcessResultsLostUpdate(Tail(order), res,
                 [jobs |-> Append(acc.jobs, result),
                  statistics |-> [st EXCEPT
                    !.jobs_failed = IF Truthy(result.error) THEN @ + 1 ELSE @,
                    !.jobs_processed = @ + 1,
                    !.total_log_size_bytes = result.log_size_bytes,
                    !.total_lines = result.log_lines]])

RECURSIVE ProcessResults(_, _, _)
\* the loop "for result in job_results" of fetch_logs_batch
ProcessResults(order, res, acc) ==
  IF order = <<>> THEN acc
  ELSE LET result == res[Head(order)]
           st == acc.statistics
       IN IF skip_empty /\ result.logs = NoneText
          THEN ProcessResults(Tail(order), res,
                 [acc EXCEPT !.statistics.jobs_skipped = st.jobs_skipped + 1])
          ELSE ProcessResults(Tail(order), res,
                 [jobs |-> Append(acc.jobs, result),
                  statistics |-> [st EXCEPT
                    !.jobs_failed = IF Truthy(result.error) THEN @ + 1 ELSE @,
                    !.jobs_processed = @ + 1,
                    !.total_log_size_bytes = @ + result.log_size_bytes,
                    !.total_lines = @ + result.log_lines]])

\* the orders in which as_completed can yield the futures of the set S that
\* were already finished when it was called (it iterates a set of futures)
Orderings(S) ==
  {o \in [1..Cardinality(S) -> S] : \A i, j \in DOMAIN o : i # j => o[i] # o[j]}

\* no single log is being filtered
FilterNotStarted ==
  /\ fpc = "idle"
  /\ fpath = "batch"
  /\ raw_logs = <<>>
  /\ fargs = NoFilters
  /\ fresult = Pending
  /\ shown = NoneText
  /\ matching_indices = {}
  /\ fcalls = 0
  /\ retail = NoneText

NoArgs == [pipeline |-> FALSE, parallel |-> 1, no_empty |-> TRUE, filters |-> NoFilters]

NoManifest == [saved |-> FALSE, jobs |-> <<>>]

\* output_dir does not exist yet
NoDirs == [made |-> {}, failed |-> FALSE]

\* get_logs.py is not run
CliNotStarted ==
  /\ args = NoArgs
  /\ cpc = "idle"
  /\ net_calls = 0
  /\ writes = <<>>
  /\ manifest = NoManifest
  /\ dirs = NoDirs

InitBatch ==
  /\ WatchNotStarted
  /\ FilterNotStarted
  /\ CliNotStarted
  /\ stalled = 0
  /\ \E n \in 0..MaxJobs : jobs = [i \in 1..n |-> i]
  /\ parallel \in 1..MaxParallel
  /\ skip_empty \in BOOLEAN
  /\ filters \in BatchFilters
  /\ bpc = "submit"
  /\ submitted = 0
  /\ queue = <<>>
  /\ wjob = [w \in Threads |-> 0]
  /\ wres = [w \in Threads |-> Pending]
  /\ wphase = [w \in Threads |-> "idle"]
  /\ wload = [w \in Threads |-> 0]
  /\ futures = [i \in 1..Len(jobs) |-> Pending]
  /\ progress = 0
  /\ job_results = <<>>
  /\ results = NoResults

\* futures = [executor.submit(fetch_with_progress, job) for job in jobs]: one call
Submit ==
  /\ bpc = "submit"
  /\ submitted < Len(jobs)
  /\ submitted' = submitted + 1
  /\ queue' = Append(queue, submitted + 1)
  /\ UNCHANGED <<watchVars, filterVars, cliVars, stalled, wload, jobs, parallel, skip_empty, filters, bpc, wjob, wres, wphase,
                 futures, progress, job_results, results>>

\* a pool thread takes the next work item and enters fetch_single_log
StartFetch(w) ==
  /\ w <= PoolSize
  /\ wphase[w] = "idle"
  /\ queue # <<>>
  /\ wjob' = [wjob EXCEPT ![w] = Head(queue)]
  /\ wphase' = [wphase EXCEPT ![w] = "fetch"]
  /\ queue' = Tail(queue)
  /\ UNCHANGED <<watchVars, filterVars, cliVars, stalled, wload, jobs, parallel, skip_empty, filters, bpc, submitted, wres,
                 futures, progress, job_results, results>>

\* fetch_single_log returns to fetch_with_progress
FetchReturns(w) ==
  /\ wphase[w] = "fetch"
  /\ wjob[w] # stalled
  /\ \E trace \in BatchTraces :
       wres' = [wres EXCEPT ![w] = fetch_single_log(jobs[wjob[w]], trace, filters)]
  /\ wphase' = [wphase EXCEPT ![w] = "lock"]
  /\ UNCHANGED <<watchVars, filterVars, cliVars, stalled, wload, jobs, parallel, skip_empty, filters, bpc, submitted, queue, wjob,
                 futures, progress, job_results, results>>

\* a lock that does not exclude: every thread enters at once
LockNeverHeld(phases) == TRUE

\* lock = Lock(): no thread is inside a "with lock" block
LockFree(phases) == \A w \in Threads : phases[w] # "locked"

\* "with lock:" is entered, and progress["completed"] += 1 loads the counter
AcquireLock(w) ==
  /\ wphase[w] = "lock"
  /\ LockFree(wphase)
  /\ wphase' = [wphase EXCEPT ![w] = "locked"]
  /\ wload' = [wload EXCEPT ![w] = progress]
  /\ UNCHANGED <<watchVars, filterVars, cliVars, stalled, jobs, parallel, skip_empty, filters, bpc, submitted, queue, wjob,
                 wres, futures, progress, job_results, results>>

\* inside "with lock": the += stores the counter, the progress line is printed
\* with it, the lock is released, and the return completes the future
ReportProgress(w) ==
  /\ wphase[w] = "locked"
  /\ progress' = wload[w] + 1
  /\ wload' = [wload EXCEPT ![w] = 0]
  /\ futures' = [futures EXCEPT ![wjob[w]] = wres[w]]
  /\ job_results' = IF bpc = "collect" THEN Append(job_results, wjob[w]) ELSE job_results
  /\ wjob' = [wjob EXCEPT ![w] = 0]
  /\ wres' = [wres EXCEPT ![w] = Pending]
  /\ wphase' = [wphase EXCEPT ![w] = "idle"]
  /\ UNCHANGED <<watchVars, filterVars, cliVars, stalled, jobs, parallel, skip_empty, filters, bpc, submitted, queue, results>>

\* concurrent.futures.as_completed(futures) is called
AsCompleted ==
  /\ bpc = "submit"
  /\ submitted = Len(jobs)
  /\ \E o \in Orderings({i \in 1..Len(jobs) : futures[i] # Pending}) : job_results' = o
  /\ bpc' = "collect"
  /\ UNCHANGED <<watchVars, filterVars, cliVars, stalled, wload, jobs, parallel, skip_empty, filters, submitted, queue, wjob, wres,
                 wphase, futures, progress, results>>

\* every future was yielded: the executor shuts down, the results are processed
ProcessAndReturn ==
  /\ bpc = "collect"
  /\ Len(job_results) = Len(jobs)
  /\ results' = ProcessResults(job_results, futures,
                  [NoResults EXCEPT !.statistics.total_jobs = Len(jobs)])
  /\ bpc' = "done"
  /\ UNCHANGED <<watchVars, filterVars, cliVars, stalled, wload, jobs, parallel, skip_empty, filters, submitted, queue, wjob, wres,
                 wphase, futures, progress, job_results>>

BatchStep ==
  \/ Submit
  \/ \E w \in Threads : StartFetch(w)
  \/ \E w \in Threads : FetchReturns(w)
  \/ \E w \in Threads : AcquireLock(w)
  \/ \E w \in Threads : ReportProgress(w)
  \/ AsCompleted
  \/ ProcessAndReturn

\* a batch run in which the trace() call of one job (or of none) never returns
InitStall ==
  /\ WatchNotStarted
  /\ FilterNotStarted
  /\ CliNotStarted
  /\ \E n \in 0..MaxJobs : jobs = [i \in 1..n |-> i]
  /\ stalled \in 0..Len(jobs)
  /\ parallel \in 1..MaxParallel
  /\ skip_empty \in BOOLEAN
  /\ filters \in BatchFilters
  /\ bpc = "submit"
  /\ submitted = 0
  /\ queue = <<>>
  /\ wjob = [w \in Threads |-> 0]
  /\ wres = [w \in Threads |-> Pending]
  /\ wphase = [w \in Threads |-> "idle"]
  /\ wload = [w \in Threads |-> 0]
  /\ futures = [i \in 1..Len(jobs) |-> Pending]
  /\ progress = 0
  /\ job_results = <<>>
  /\ results = NoResults

\* ------------------------------------------------------------- job statuses
JobStatuses ==
  {"created", "pending", "running", "manual", "success", "failed", "canceled", "skipped"}

\* is_terminal_status with 'canceled' and 'skipped' forgotten
is_terminal_status_short(st) == st \in {"success", "failed"}

\* is_terminal_status(status)
is_terminal_status(st) == st \in {"success", "failed", "canceled", "skipped"}

\* ------------------------------------------------------------------ fnmatch
RECURSIVE FnMatch(_, _)
\* fnmatch.fnmatch(name, pattern) for patterns of literals, "?" and "*"
FnMatch(name, pat) ==
  IF pat = <<>> THEN name = <<>>
  ELSE IF Head(pat) = "*"
       THEN FnMatch(name, Tail(pat)) \/ (name # <<>> /\ FnMatch(Tail(name), pat))
  ELSE IF name = <<>> THEN FALSE
  ELSE (Head(pat) = "?" \/ Head(pat) = Head(name)) /\ FnMatch(Tail(name), Tail(pat))

\* --------------------------------------------------------------- the remote
\* the name of the remote job with this id
JobName(id) ==
  IF id = 1 THEN <<"d", "a">> ELSE IF id = 2 THEN <<"d", "b">> ELSE <<"t">>

\* the status changes of the remote pipeline in a watch run
RemotePipelineNext(st) ==
  IF st = "created" THEN {"pending", "skipped"}
  ELSE IF st = "pending" THEN {"running", "canceled"}
  ELSE IF st = "running" THEN {"success", "failed", "canceled"}
  ELSE {}

\* the status changes of a remote job in a watch run; "absent": not created yet,
\* "retried": replaced by a retry, which jobs.list no longer returns
RemoteJobNext(st) ==
  IF st = "absent" THEN {"created", "pending"}
  ELSE IF st = "created" THEN {"pending", "manual", "skipped"}
  ELSE IF st = "manual" THEN {"pending", "canceled"}
  ELSE IF st = "pending" THEN {"running", "canceled"}
  ELSE IF st = "running" THEN {"success", "failed", "canceled"}
  ELSE IF st = "failed" THEN {"retried"}
  ELSE {}

Listed(st) == st \in JobStatuses

RECURSIVE JobsFrom(_, _)
JobsFrom(rj, id) ==
  IF id > MaxWatchJobs THEN <<>>
  ELSE (IF Listed(rj[id])
        THEN <<[id |-> id, name |-> JobName(id), status |-> rj[id]]>>
        ELSE <<>>)
       \o JobsFrom(rj, id + 1)

\* get_all_jobs: pipeline.jobs.list(get_all=True), every job of the pipeline
get_all_jobs(rj) == JobsFrom(rj, 1)

\* a search that takes every job of the list for a match
find_jobs_any_name(job_list, pattern) == job_list

\* find_jobs_by_pattern, on the job list it reads
find_jobs_by_pattern(job_list, pattern) ==
  SelectSeq(job_list, LAMBDA job : FnMatch(job.name, pattern))

\* the same check without the early return for an empty match list
check_pattern_completion_vacuous(job_list, pattern) ==
  LET matching_jobs == find_jobs_by_pattern(job_list, pattern)
      terminal_jobs == SelectSeq(matching_jobs, LAMBDA job : is_terminal_status(job.status))
      non_terminal_jobs ==
        SelectSeq(matching_jobs, LAMBDA job : ~is_terminal_status(job.status))
  IN <<Len(terminal_jobs) = Len(matching_jobs),
       [total |-> Len(matching_jobs), completed |-> Len(terminal_jobs),
        terminal_jobs |-> terminal_jobs, non_terminal_jobs |-> non_terminal_jobs,
        error |-> None]>>

\* check_pattern_completion, on the job list find_jobs_by_pattern reads:
\* <<all_complete, stats>>
check_pattern_completion(job_list, pattern) ==
  LET matching_jobs == find_jobs_by_pattern(job_list, pattern)
      terminal_jobs == SelectSeq(matching_jobs, LAMBDA job : is_terminal_status(job.status))
      non_terminal_jobs ==
        SelectSeq(matching_jobs, LAMBDA job : ~is_terminal_status(job.status))
  IN IF matching_jobs = <<>>
     THEN <<FALSE, [NoStats EXCEPT !.error = "no_matches"]>>
     ELSE <<Len(terminal_jobs) = Len(matching_jobs),
            [total |-> Len(matching_jobs), completed |-> Len(terminal_jobs),
             terminal_jobs |-> terminal_jobs, non_terminal_jobs |-> non_terminal_jobs,
             error |-> None]>>

\* current_jobs = {job.id: {'name': job.name, 'status': job.status} ...}
Snapshot(job_list) ==
  [is_none |-> FALSE,
   jobs |-> [id \in {job_list[k].id : k \in 1..Len(job_list)} |->
               LET job == CHOOSE j \in {job_list[k] : k \in 1..Len(job_list)} : j.id = id
               IN [name |-> job.name, status |-> job.status]]]

\* a loop that never replaces the first snapshot it has kept
NextPreviousJobsFirst(prev, cur) == IF prev.is_none THEN cur ELSE prev

\* main: previous_jobs = current_jobs, at the end of a tick
NextPreviousJobs(prev, cur) == cur

\* truthiness of previous_jobs: None and the empty dict are falsy
HasPrevious(prev) == ~prev.is_none /\ DOMAIN prev.jobs # {}

\* the same loop reporting a job that is new in the list as a change
ChangedJobsWithNew(prev, job_list) ==
  IF ~HasPrevious(prev) THEN <<>>
  ELSE LET old(job) == IF job.id \in DOMAIN prev.jobs
                       THEN prev.jobs[job.id].status ELSE None
           hits == SelectSeq(job_list, LAMBDA job : old(job) # job.status)
       IN [k \in 1..Len(hits) |->
             [job |-> hits[k], prev_status |-> old(hits[k]),
              current_status |-> hits[k].status]]

\* the "Detect changed jobs" loop of monitor_pipeline
ChangedJobs(prev, job_list) ==
  IF ~HasPrevious(prev) THEN <<>>
  ELSE LET changed(job) ==
             job.id \in DOMAIN prev.jobs /\ prev.jobs[job.id].status # job.status
           hits == SelectSeq(job_list, changed)
       IN [k \in 1..Len(hits) |->
             [job |-> hits[k], prev_status |-> prev.jobs[hits[k].id].status,
              current_status |-> hits[k].status]]

\* the job list of the tick before, taken from its snapshot
PatternJobListStale ==
  JobsFrom([id \in WatchJobIds |->
              IF id \in DOMAIN previous_jobs.jobs
              THEN previous_jobs.jobs[id].status ELSE "absent"], 1)

\* the job list the pattern check works on: find_jobs_by_pattern reads it
\* afresh from the remote on every call
PatternJobList == get_all_jobs(rjobs)

\* no job of the list has a name the pattern matches
NoJobMatches(job_list, pattern) ==
  \A k \in 1..Len(job_list) : ~FnMatch(job_list[k].name, pattern)

\* ------------------------------------------------------ main: the watch loop
WatchPatterns == {NoPattern, <<"d", "*">>, <<"?", "a">>}

\* fetch_logs_batch is not run
BatchNotStarted ==
  /\ jobs = <<>>
  /\ parallel = 1
  /\ skip_empty = TRUE
  /\ filters = NoFilters
  /\ bpc = "done"
  /\ submitted = 0
  /\ queue = <<>>
  /\ wjob = [w \in Threads |-> 0]
  /\ wres = [w \in Threads |-> Pending]
  /\ wphase = [w \in Threads |-> "idle"]
  /\ wload = [w \in Threads |-> 0]
  /\ futures = <<>>
  /\ progress = 0
  /\ job_results = <<>>
  /\ results = NoResults
  /\ stalled = 0

InitWatch ==
  /\ BatchNotStarted
  /\ FilterNotStarted
  /\ CliNotStarted
  /\ watch_pattern \in WatchPatterns
  /\ rpipe \in {"created", "running"}
  /\ rjobs = [id \in WatchJobIds |-> "absent"]
  /\ wpc = IF watch_pattern # NoPattern THEN "validate" ELSE "pipeline"
  /\ status = None
  /\ all_jobs = <<>>
  /\ changed_jobs = <<>>
  /\ previous_jobs = NoSnapshot
  /\ current_jobs = NoSnapshot
  /\ no_match_iterations = 0
  /\ iteration = 0
  /\ all_complete = FALSE
  /\ stats = NoStats
  /\ outcome = "none"
  /\ reads = 0
  /\ sleeps = 0
  /\ remote_changes = 0
  /\ no_match_run = 0
  /\ reports = 0
  /\ tick_jobs = NoSnapshot

\* the remote pipeline or one of its jobs changes status while the loop runs
RemoteChange ==
  /\ wpc # "stopped"
  /\ remote_changes < MaxRemoteChanges
  /\ remote_changes' = remote_changes + 1
  /\ \/ /\ \E st \in RemotePipelineNext(rpipe) : rpipe' = st
        /\ UNCHANGED rjobs
     \/ /\ \E id \in WatchJobIds : \E st \in RemoteJobNext(rjobs[id]) :
             rjobs' = [rjobs EXCEPT ![id] = st]
        /\ UNCHANGED rpipe
  /\ UNCHANGED <<batchVars, filterVars, cliVars, reports, tick_jobs, no_match_run, watch_pattern, wpc, status, all_jobs, changed_jobs, previous_jobs,
                 current_jobs, no_match_iterations, iteration, all_complete, stats,
                 outcome, reads, sleeps>>

\* "Initial pattern validation": find_jobs_by_pattern reads the pipeline and its jobs
InitialValidation ==
  /\ wpc = "validate"
  /\ wpc' = "pipeline"
  /\ reads' = reads + 2
  /\ UNCHANGED <<batchVars, filterVars, cliVars, reports, tick_jobs, remote_changes, no_match_run, watch_pattern, rpipe, rjobs, status, all_jobs, changed_jobs,
                 previous_jobs, current_jobs, no_match_iterations, iteration,
                 all_complete, stats, outcome, sleeps>>

\* monitor_pipeline: pipeline = analyzer.get_pipeline(pipeline_id)
ReadPipeline ==
  /\ wpc = "pipeline"
  /\ status' = rpipe
  /\ reads' = reads + 1
  /\ wpc' = "summary"
  /\ UNCHANGED <<batchVars, filterVars, cliVars, reports, tick_jobs, remote_changes, no_match_run, watch_pattern, rpipe, rjobs, all_jobs, changed_jobs, previous_jobs,
                 current_jobs, no_match_iterations, iteration, all_complete, stats,
                 outcome, sleeps>>

\* monitor_pipeline: get_pipeline_summary reads the pipeline and three times the
\* job list (each with its pipeline); the progress lines are printed from it
ReadSummary ==
  /\ wpc = "summary"
  /\ reads' = reads + 7
  /\ wpc' = "jobs"
  /\ UNCHANGED <<batchVars, filterVars, cliVars, reports, tick_jobs, remote_changes, no_match_run, watch_pattern, rpipe, rjobs, status, all_jobs, changed_jobs,
                 previous_jobs, current_jobs, no_match_iterations, iteration,
                 all_complete, stats, outcome, sleeps>>

\* monitor_pipeline: get_all_jobs, the snapshot, the diff and their report
ReadJobs ==
  /\ wpc = "jobs"
  /\ all_jobs' = get_all_jobs(rjobs)
  /\ current_jobs' = Snapshot(all_jobs')
  /\ tick_jobs' = Snapshot(all_jobs')
  /\ changed_jobs' = ChangedJobs(previous_jobs, all_jobs')
  /\ reads' = reads + 2
  /\ wpc' = "stages"
  /\ UNCHANGED <<batchVars, filterVars, cliVars, reports, remote_changes, no_match_run, watch_pattern, rpipe, rjobs, status, previous_jobs,
                 no_match_iterations, iteration, all_complete, stats, outcome, sleeps>>

\* monitor_pipeline: show_jobs is set in watch mode: get_jobs_by_stage reads the
\* jobs once more; then the report ends and monitor_pipeline returns
ReadStagesAndReturn ==
  /\ wpc = "stages"
  /\ reads' = reads + 2
  /\ reports' = reports + 1
  /\ all_jobs' = <<>>
  /\ changed_jobs' = <<>>
  /\ wpc' = "check"
  /\ UNCHANGED <<batchVars, filterVars, cliVars, tick_jobs, remote_changes, no_match_run, watch_pattern, rpipe, rjobs, status, previous_jobs, current_jobs,
                 no_match_iterations, iteration, all_complete, stats, outcome, sleeps>>

\* main returns: the locals of the loop are gone
Return ==
  /\ wpc' = "stopped"
  /\ status' = None
  /\ previous_jobs' = NoSnapshot
  /\ current_jobs' = NoSnapshot
  /\ all_complete' = FALSE
  /\ stats' = NoStats

\* main: "Check termination conditions", without a watch pattern
CheckPipeline ==
  /\ wpc = "check"
  /\ watch_pattern = NoPattern
  /\ IF is_terminal_status(status)
     THEN outcome' = "terminal" /\ Return
     ELSE /\ wpc' = "sleep"
          /\ UNCHANGED <<outcome, status, previous_jobs, current_jobs, all_complete, stats>>
  /\ UNCHANGED <<batchVars, filterVars, cliVars, reports, tick_jobs, remote_changes, no_match_run, watch_pattern, rpipe, rjobs, all_jobs, changed_jobs,
                 no_match_iterations, iteration, reads, sleeps>>

\* main: "Check termination conditions", with a watch pattern
CheckPattern ==
  /\ wpc = "check"
  /\ watch_pattern # NoPattern
  /\ LET r == check_pattern_completion(PatternJobList, watch_pattern)
     IN IF r[2].error = "no_matches"
        THEN /\ no_match_iterations' = no_match_iterations + 1
             /\ IF GraceExpired(no_match_iterations + 1)
                THEN outcome' = "no_matches" /\ Return
                ELSE /\ wpc' = "sleep"
                     /\ all_complete' = r[1]
                     /\ stats' = r[2]
                     /\ UNCHANGED <<outcome, status, previous_jobs, current_jobs>>
        ELSE /\ all_complete' = r[1]
             /\ stats' = r[2]
             /\ IF r[1]
                THEN outcome' = "completed" /\ wpc' = "note"
                     /\ UNCHANGED no_match_iterations
                ELSE outcome' = outcome /\ wpc' = "sleep" /\ no_match_iterations' = 0
             /\ UNCHANGED <<status, previous_jobs, current_jobs>>
  /\ no_match_run' = IF NoJobMatches(PatternJobList, watch_pattern)
                      THEN no_match_run + 1 ELSE 0
  /\ reads' = reads + 2
  /\ UNCHANGED <<batchVars, filterVars, cliVars, reports, tick_jobs, remote_changes, watch_pattern, rpipe, rjobs, all_jobs, changed_jobs,
                 iteration, sleeps>>

\* main: "Note about non-matching jobs": get_all_jobs once more, then break
NoteOtherJobs ==
  /\ wpc = "note"
  /\ reads' = reads + 2
  /\ Return
  /\ UNCHANGED <<batchVars, filterVars, cliVars, reports, tick_jobs, remote_changes, no_match_run, watch_pattern, rpipe, rjobs, all_jobs, changed_jobs,
                 no_match_iterations, iteration, outcome, sleeps>>

\* main: previous_jobs = current_jobs; iteration += 1; time.sleep(args.interval).
\* status, current_jobs, all_complete and stats are assigned anew by the next
\* tick before they are read: they are dropped here
Sleep ==
  /\ wpc = "sleep"
  /\ iteration + 1 < MaxTicks
  /\ previous_jobs' = NextPreviousJobs(previous_jobs, current_jobs)
  /\ iteration' = iteration + 1
  /\ sleeps' = sleeps + 1
  /\ wpc' = "pipeline"
  /\ status' = None
  /\ current_jobs' = NoSnapshot
  /\ all_complete' = FALSE
  /\ stats' = NoStats
  /\ UNCHANGED <<batchVars, filterVars, cliVars, reports, tick_jobs, remote_changes, no_match_run, watch_pattern, rpipe, rjobs, all_jobs, changed_jobs,
                 no_match_iterations, outcome, reads>>

\* an interrupt that is taken for the pipeline reaching a terminal status
InterruptedOutcomeTerminal(current) == IF current = "none" THEN "terminal" ELSE current

\* the last message of the run after Ctrl+C: "Monitoring stopped by user", unless
\* the loop had printed its own ending before the interrupt arrived
InterruptedOutcome(current) == IF current = "none" THEN "interrupted" ELSE current

\* KeyboardInterrupt, raised wherever main is (in a read, in the report, in
\* time.sleep): the handler prints its message and main returns 0
Interrupt ==
  /\ wpc # "stopped"
  /\ outcome' = InterruptedOutcome(outcome)
  /\ Return
  /\ all_jobs' = <<>>
  /\ changed_jobs' = <<>>
  /\ UNCHANGED <<batchVars, filterVars, cliVars, reports, tick_jobs, remote_changes, no_match_run, watch_pattern, rpipe, rjobs,
                 no_match_iterations, iteration, reads, sleeps>>
WatchStep ==
  \/ RemoteChange
  \/ InitialValidation
  \/ ReadPipeline
  \/ ReadSummary
  \/ ReadJobs
  \/ ReadStagesAndReturn
  \/ CheckPipeline
  \/ CheckPattern
  \/ NoteOtherJobs
  \/ Sleep

\* --------------------------------- main: the watch loop on a settled remote
\* the statuses a job can rest in once its pipeline is over: the terminal ones,
\* "manual" (waiting for a user to start it), and never created
SettledJobStatuses == {st \in JobStatuses : is_terminal_status(st)} \cup {"manual", "absent"}

\* the loop at the head of a tick, the pipeline being terminal and no status
\* changing any more
InitSettled ==
  /\ BatchNotStarted
  /\ FilterNotStarted
  /\ CliNotStarted
  /\ watch_pattern \in WatchPatterns \ {NoPattern}
  /\ rpipe \in {st \in JobStatuses : is_terminal_status(st)}
  /\ rjobs \in [WatchJobIds -> SettledJobStatuses]
  /\ wpc = "pipeline"
  /\ status = None
  /\ all_jobs = <<>>
  /\ changed_jobs = <<>>
  /\ previous_jobs = NoSnapshot
  /\ current_jobs = NoSnapshot
  /\ no_match_iterations \in 0..(NoMatchLimit - 1)
  /\ iteration = 0
  /\ all_complete = FALSE
  /\ stats = NoStats
  /\ outcome = "none"
  /\ reads = 0
  /\ sleeps = 0
  /\ remote_changes = 0
  /\ no_match_run = 0
  /\ reports = 0
  /\ tick_jobs = NoSnapshot

\* one whole tick of the while loop of main with a watch pattern: the report of
\* monitor_pipeline, check_pattern_completion, then break or sleep. The remote
\* not changing, every read of the tick sees the same statuses. iteration is
\* kept modulo MaxTicks (the loop only prints it); the counters of reads, sleeps
\* and reports are not kept here
SettledTick ==
  /\ wpc = "pipeline"
  /\ watch_pattern # NoPattern
  /\ LET job_list == get_all_jobs(rjobs)
         r == check_pattern_completion(job_list, watch_pattern)
         stop == IF r[2].error = "no_matches"
                 THEN GraceExpired(no_match_iterations + 1)
                 ELSE r[1]
     IN /\ no_match_iterations' =
             IF r[2].error = "no_matches" THEN no_match_iterations + 1
             ELSE IF r[1] THEN no_match_iterations ELSE 0
        /\ outcome' = IF ~stop THEN outcome
                      ELSE IF r[2].error = "no_matches" THEN "no_matches" ELSE "completed"
        /\ wpc' = IF stop THEN "stopped" ELSE "pipeline"
        /\ previous_jobs' = IF stop THEN NoSnapshot
                            ELSE NextPreviousJobs(previous_jobs, Snapshot(job_list))
        /\ tick_jobs' = Snapshot(job_list)
        /\ iteration' = IF stop THEN iteration ELSE (iteration + 1) % MaxTicks
  /\ UNCHANGED <<batchVars, filterVars, cliVars, reports, remote_changes, no_match_run, watch_pattern, rpipe, rjobs,
                 status, all_jobs, changed_jobs, current_jobs, all_complete, stats,
                 reads, sleeps>>
\* --------------------------------------- check_pattern_completion on its own
PatternNames == {<<"d", "a">>, <<"d", "b">>, <<"t">>}
GlobPatterns == {<<"d", "*">>, <<"*", "b">>, <<"?">>}

\* the job lists find_jobs_by_pattern can read: any names, any statuses
PatternJobLists ==
  UNION {[1..n -> [id : {0}, name : PatternNames, status : JobStatuses]] :
           n \in 0..MaxPatternJobs}

InitPattern ==
  /\ BatchNotStarted
  /\ FilterNotStarted
  /\ CliNotStarted
  /\ \E l \in PatternJobLists :
       all_jobs = [k \in 1..Len(l) |-> [l[k] EXCEPT !.id = k]]
  /\ watch_pattern \in GlobPatterns
  /\ wpc = "pattern_call"
  /\ rpipe = "pending"
  /\ rjobs = [id \in WatchJobIds |-> "absent"]
  /\ status = None
  /\ changed_jobs = <<>>
  /\ previous_jobs = NoSnapshot
  /\ current_jobs = NoSnapshot
  /\ no_match_iterations = 0
  /\ iteration = 0
  /\ all_complete = FALSE
  /\ stats = NoStats
  /\ outcome = "none"
  /\ reads = 0
  /\ sleeps = 0
  /\ remote_changes = 0
  /\ no_match_run = 0
  /\ reports = 0
  /\ tick_jobs = NoSnapshot

\* all_complete, stats = check_pattern_completion(analyzer, pipeline, pattern)
CallCheckPatternCompletion ==
  /\ wpc = "pattern_call"
  /\ all_complete' = check_pattern_completion(all_jobs, watch_pattern)[1]
  /\ stats' = check_pattern_completion(all_jobs, watch_pattern)[2]
  /\ wpc' = "pattern_done"
  /\ UNCHANGED <<batchVars, filterVars, cliVars, reports, tick_jobs, remote_changes, no_match_run, watch_pattern, rpipe, rjobs,
                 status, all_jobs, changed_jobs, previous_jobs, current_jobs,
                 no_match_iterations, iteration, outcome, reads, sleeps>>

\* ----------------------------------------------- filtering one job's log
\* the characters of a log text in the model
LogChars == {"a", "e", "E", NL}

LogTexts == UNION {[1..n -> LogChars] : n \in 0..MaxTextLen}

FilterArgs ==
  [tail : 0..MaxTail, grep : {None, "e", "("}, ignore_case : BOOLEAN,
   context : 0..MaxContext]

\* get_logs.py tail_logs(logs, n), called with n > 0
tail_logs(logs, n) == Join(LastLines(Split(logs), n))

\* get_logs.py filter_logs: its matching_indices
FilterLogsIndices(lines, pattern, ignore_case, context) ==
  {j \in 1..Len(lines) :
     \E i \in 1..Len(lines) :
       /\ ReSearch(pattern, lines[i], ignore_case)
       /\ j >= i - context
       /\ j <= i + context}

\* get_logs.py filter_logs(logs, pattern, ignore_case, context)
filter_logs(logs, pattern, ignore_case, context) ==
  IF pattern = None THEN logs
  ELSE IF ~PatternCompiles(pattern) THEN logs
  ELSE LET lines == Split(logs)
       IN Join(PickLines(lines,
                 FilterLogsIndices(lines, pattern, ignore_case, context), 1))

\* "not logs or not logs.strip()"
IsBlank(logs) == \A i \in 1..Len(logs) : logs[i] = NL

\* handle_single_job: the text it outputs for a trace (NoneText: "No logs available")
SingleJobOutput(logs, a) ==
  IF IsBlank(logs) THEN NoneText
  ELSE LET grepped == IF a.grep # None
                      THEN filter_logs(logs, a.grep, a.ignore_case, a.context)
                      ELSE logs
       IN IF a.tail # 0 THEN tail_logs(grepped, a.tail) ELSE grepped

\* the positions the grep step of _apply_filters kept (none when it did not run)
BatchMatchingIndices(logs, a) ==
  IF logs = <<>> \/ a.grep = None \/ ~PatternCompiles(a.grep) THEN {}
  ELSE LET all == Split(logs)
           tailed == IF a.tail # 0 THEN LastLines(all, a.tail) ELSE all
       IN GrepIndices(tailed, a)

\* the positions filter_logs kept (none when it did not run or returned early)
SingleMatchingIndices(logs, a) ==
  IF IsBlank(logs) \/ a.grep = None \/ ~PatternCompiles(a.grep) THEN {}
  ELSE FilterLogsIndices(Split(logs), a.grep, a.ignore_case, a.context)

InitFilter ==
  /\ BatchNotStarted
  /\ WatchNotStarted
  /\ CliNotStarted
  /\ fpc = "call"
  /\ fpath \in {"batch", "single"}
  /\ raw_logs \in LogTexts
  /\ fargs \in FilterArgs
  /\ fresult = Pending
  /\ shown = NoneText
  /\ matching_indices = {}
  /\ fcalls = 0
  /\ retail = NoneText

\* result = self.fetch_single_log(job, filters), the remote serving raw_logs
CallFetchSingleLog ==
  /\ fpc = "call"
  /\ fpath = "batch"
  /\ fresult' = fetch_single_log(1, raw_logs, fargs)
  /\ matching_indices' = BatchMatchingIndices(raw_logs, fargs)
  /\ fcalls' = fcalls + 1
  /\ fpc' = "done"
  /\ UNCHANGED <<batchVars, watchVars, cliVars, fpath, raw_logs, fargs, shown, retail>>

\* handle_single_job from the blank test to the output, job.trace() giving raw_logs
CallSingleJobFilters ==
  /\ fpc = "call"
  /\ fpath = "single"
  /\ shown' = SingleJobOutput(raw_logs, fargs)
  /\ matching_indices' = SingleMatchingIndices(raw_logs, fargs)
  /\ fcalls' = fcalls + 1
  /\ fpc' = "done"
  /\ UNCHANGED <<batchVars, watchVars, cliVars, fpath, raw_logs, fargs, fresult, retail>>

\* the same log is requested again with the context radius one larger
WidenContext ==
  /\ fpc = "done"
  /\ fargs.grep # None
  /\ fargs.context < MaxContext
  /\ fargs' = [fargs EXCEPT !.context = @ + 1]
  /\ fpc' = "call"
  /\ UNCHANGED <<batchVars, watchVars, cliVars, fpath, raw_logs, fresult, shown,
                 matching_indices, fcalls, retail>>

\* the tail step (_apply_filters with tail only, tail_logs) run on its own output
TailAgain ==
  /\ fpc = "done"
  /\ fargs.tail # 0
  /\ fargs.grep = None
  /\ \/ /\ fpath = "batch"
        /\ fresult.logs # NoneText
        /\ retail' = ApplyFilters(fresult.logs, fargs)
     \/ /\ fpath = "single"
        /\ shown # NoneText
        /\ retail' = tail_logs(shown, fargs.tail)
  /\ fpc' = "retailed"
  /\ UNCHANGED <<batchVars, watchVars, cliVars, fpath, raw_logs, fargs, fresult, shown,
                 matching_indices, fcalls>>

FilterStep ==
  \/ CallFetchSingleLog
  \/ CallSingleJobFilters
  \/ WidenContext
  \/ TailAgain

\* ------------------------------------------------- get_logs.py batch mode
\* name, status and stage of the pipeline's job with this id
BatchJobName(id) ==
  IF id = 1 THEN <<"a", " ", ":", "b">>
  ELSE IF id = 2 THEN <<"a", "-", "b">>
  ELSE <<"-", "t", ".", "x", " ">>

BatchJobStatus(id) == IF id = 2 THEN "failed" ELSE "success"

BatchJobStage(id) == IF id = 1 THEN "build" ELSE "test"

\* a directory: output_dir itself, one of all/, by-status/, by-stage/, or a
\* subdirectory of these
OutputDir == [index |-> "", sub |-> ""]

Dir(index, sub) == [index |-> index, sub |-> sub]

\* the directory a new directory is made in
Parent(path) == IF path.sub # "" THEN Dir(path.index, "") ELSE OutputDir

\* Path.mkdir(parents=..., exist_ok=...), given the directories that exist:
\* FileExistsError without exist_ok, FileNotFoundError without the parent
Mkdir(d, path, parents, exist_ok) ==
  IF d.failed THEN d
  ELSE IF path \in d.made THEN [d EXCEPT !.failed = ~exist_ok]
  ELSE IF Parent(path) \in d.made THEN [d EXCEPT !.made = @ \cup {path}]
  ELSE IF parents THEN [d EXCEPT !.made = @ \cup {path, Parent(path), OutputDir}]
  ELSE [d EXCEPT !.failed = TRUE]

RECURSIVE MkdirEach(_, _)
\* for x in ...: (...).mkdir(exist_ok=True), over a set of directories
MkdirEach(d, paths) ==
  IF paths = {} THEN d
  ELSE LET path == CHOOSE q \in paths : TRUE
       IN MkdirEach(Mkdir(d, path, FALSE, TRUE), paths \ {path})

\* the same without the subdirectories of by-status/ and by-stage/
create_base_directories(job_list, d) ==
  Mkdir(Mkdir(Mkdir(d, Dir("all", ""), TRUE, TRUE), Dir("by-status", ""), FALSE, TRUE),
        Dir("by-stage", ""), FALSE, TRUE)

\* create_directory_structure(jobs), on the directories that exist
create_directory_structure(job_list, d) ==
  LET base == Mkdir(Mkdir(Mkdir(d, Dir("all", ""), TRUE, TRUE),
                          Dir("by-status", ""), FALSE, TRUE),
                    Dir("by-stage", ""), FALSE, TRUE)
      statuses == {BatchJobStatus(job_list[k]) : k \in 1..Len(job_list)}
      stages == {BatchJobStage(job_list[k]) : k \in 1..Len(job_list)}
  IN MkdirEach(MkdirEach(base, {Dir("by-status", st) : st \in statuses}),
               {Dir("by-stage", sg) : sg \in stages})

\* what an earlier run on the same pipeline has left in output_dir
EarlierRunDirs == create_directory_structure(<<1>>, NoDirs)

\* [\w\-\.] on the characters of the model's job names
IsSafeChar(c) == c \in {"a", "b", "t", "x", "_", "-", "."}

\* re.sub(r'[^\w\-\.]', '-', name)
ReplaceUnsafe(name) == [i \in 1..Len(name) |-> IF IsSafeChar(name[i]) THEN name[i] ELSE "-"]

RECURSIVE CollapseHyphens(_)
\* re.sub(r'-+', '-', sanitized)
CollapseHyphens(name) ==
  IF Len(name) <= 1 THEN name
  ELSE IF name[1] = "-" /\ name[2] = "-" THEN CollapseHyphens(Tail(name))
  ELSE <<name[1]>> \o CollapseHyphens(Tail(name))

RECURSIVE StripHyphens(_)
\* sanitized.strip('-')
StripHyphens(name) ==
  IF name = <<>> THEN name
  ELSE IF Head(name) = "-" THEN StripHyphens(Tail(name))
  ELSE IF name[Len(name)] = "-" THEN StripHyphens(SubSeq(name, 1, Len(name) - 1))
  ELSE name

\* sanitize_filename(name)
sanitize_filename(name) == StripHyphens(CollapseHyphens(ReplaceUnsafe(name)))

\* f"job-{job_id}-{job_name}.log"
LogFileName(job_id) == [id |-> job_id, name |-> sanitize_filename(BatchJobName(job_id))]

\* the three write_text calls of save_logs_to_files for one job result
ThreeWrites(job_result) ==
  LET filename == LogFileName(job_result.job_id)
      w(index, sub) == [path |-> [index |-> index, sub |-> sub, file |-> filename],
                        content |-> job_result.logs]
  IN <<w("all", ""),
       w("by-status", BatchJobStatus(job_result.job_id)),
       w("by-stage", BatchJobStage(job_result.job_id))>>

RECURSIVE save_logs_to_files(_)
\* save_logs_to_files(results): the writes it issues for results["jobs"]
save_logs_to_files(job_list) ==
  IF job_list = <<>> THEN <<>>
  ELSE LET job_result == Head(job_list)
       IN IF job_result.logs = NoneText \/ job_result.logs = <<>>
          THEN save_logs_to_files(Tail(job_list))
          ELSE ThreeWrites(job_result) \o save_logs_to_files(Tail(job_list))

\* one entry of the manifest's "jobs" list
ManifestEntry(j) ==
  [job_id |-> j.job_id, log_file |-> [index |-> "all", sub |-> "", file |-> LogFileName(j.job_id)],
   log_size_bytes |-> j.log_size_bytes, log_lines |-> j.log_lines,
   error_matches |-> j.error_matches]

\* a manifest that lists only the jobs a log file was written for
save_manifest_written_only(job_list) ==
  [saved |-> TRUE,
   jobs |-> LET kept == SelectSeq(job_list, LAMBDA j : j.logs # NoneText /\ j.logs # <<>>)
            IN [k \in 1..Len(kept) |-> ManifestEntry(kept[k])]]

\* save_manifest(results, ...): what it dumps for results["jobs"]
save_manifest(job_list) ==
  [saved |-> TRUE, jobs |-> [k \in 1..Len(job_list) |-> ManifestEntry(job_list[k])]]

\* the values of --parallel in the model
CliParallels == {1, MaxParallel, ParallelCeiling, ParallelCeiling + 1}

\* get_logs.py --batch is started with some command line
InitCli ==
  /\ BatchNotStarted
  /\ WatchNotStarted
  /\ FilterNotStarted
  /\ args \in [pipeline : BOOLEAN, parallel : CliParallels, no_empty : {TRUE},
               filters : BatchFilters]
  /\ cpc = "parse"
  /\ net_calls = 0
  /\ writes = <<>>
  /\ manifest = NoManifest
  /\ dirs \in {NoDirs, EarlierRunDirs}

\* parse_args: the validation of batch mode; parser.error exits the program
ParseArgs ==
  /\ cpc = "parse"
  /\ cpc' = IF ~args.pipeline \/ ParallelTooHigh(args.parallel) THEN "rejected" ELSE "main"
  /\ UNCHANGED <<batchVars, watchVars, filterVars, args, net_calls, writes, manifest, dirs>>

\* main: the client, the project (gl.projects.get) and the analyzer
InitClient ==
  /\ cpc = "main"
  /\ net_calls' = net_calls + 1
  /\ cpc' = "batch"
  /\ UNCHANGED <<batchVars, watchVars, filterVars, args, writes, manifest, dirs>>

\* handle_batch_mode up to "if not jobs": project.pipelines.get, get_all_jobs
ReadJobList ==
  /\ cpc = "batch"
  /\ net_calls' = net_calls + 3
  /\ \E n \in 0..MaxCliJobs :
       /\ jobs' = [i \in 1..n |-> i]
       /\ cpc' = IF n = 0 THEN "exit" ELSE "fetcher"
  /\ UNCHANGED <<watchVars, filterVars, args, writes, manifest, dirs, parallel, skip_empty,
                 filters, bpc, submitted, queue, wjob, wres, wphase, wload, futures,
                 progress, job_results, results, stalled>>

\* BatchLogFetcher(...), create_directory_structure, the call of fetch_logs_batch
CallFetchLogsBatch ==
  /\ cpc = "fetcher"
  /\ net_calls' = net_calls + 1
  /\ parallel' = args.parallel
  /\ filters' = args.filters
  /\ skip_empty' = args.no_empty
  /\ dirs' = create_directory_structure(jobs, dirs)
  /\ futures' = [i \in 1..Len(jobs) |-> Pending]
  /\ IF dirs'.failed
     THEN bpc' = bpc /\ cpc' = "exit"
     ELSE bpc' = "submit" /\ cpc' = "fetch"
  /\ UNCHANGED <<watchVars, filterVars, args, writes, manifest, jobs, submitted, queue,
                 wjob, wres, wphase, wload, progress, job_results, results, stalled>>

\* fetcher.save_logs_to_files(results), once fetch_logs_batch has returned
SaveLogsToFiles ==
  /\ cpc = "fetch"
  /\ bpc = "done"
  /\ writes' = save_logs_to_files(results.jobs)
  /\ cpc' = "saved"
  /\ UNCHANGED <<batchVars, watchVars, filterVars, args, net_calls, manifest, dirs>>

\* fetcher.save_manifest(results, ...), then the final statistics and return 0
SaveManifest ==
  /\ cpc = "saved"
  /\ manifest' = save_manifest(results.jobs)
  /\ cpc' = "exit"
  /\ UNCHANGED <<batchVars, watchVars, filterVars, args, net_calls, writes, dirs>>

CliStep ==
  \/ ParseArgs
  \/ InitClient
  \/ ReadJobList
  \/ CallFetchLogsBatch
  \/ BatchStep
  \/ SaveLogsToFiles
  \/ SaveManifest

\* ---------------------------------------------------------- specifications
NextBatch == BatchStep

SpecBatch == InitBatch /\ [][NextBatch]_vars

NextWatch == WatchStep

SpecWatch == InitWatch /\ [][NextWatch]_vars

NextPattern == CallCheckPatternCompletion

SpecPattern == InitPattern /\ [][NextPattern]_vars

NextFilter == FilterStep

SpecFilter == InitFilter /\ [][NextFilter]_vars

NextCli == CliStep

SpecCli == InitCli /\ [][NextCli]_vars

NextStall == BatchStep

\* the calling thread and the pool's threads are scheduled as long as they can run
SpecStall == InitStall /\ [][NextStall]_vars /\ WF_vars(NextStall)

NextInterrupt == WatchStep \/ Interrupt

\* the watch loop with Ctrl+C: the signal may arrive at any point of the run
SpecInterrupt == InitWatch /\ [][NextInterrupt]_vars
NextSettled == SettledTick

\* the loop is one thread: its reads return and time.sleep(interval) ends, so
\* the next tick is always taken
SpecSettled == InitSettled /\ [][NextSettled]_vars /\ WF_vars(NextSettled)
\* ------------------------------------------------- claims: fetch_logs_batch
Stats == results.statistics

\* the job ids of the result's jobs list, in its order
ReportedIds == [k \in 1..Len(results.jobs) |-> results.jobs[k].job_id]

IsReported(job_id) == \E k \in 1..Len(results.jobs) : results.jobs[k].job_id = job_id

\* positions whose fetch set error / returned an empty text without error
FailedPositions == {i \in 1..Len(jobs) : futures[i].error # None}
EmptyPositions == {i \in 1..Len(jobs) : futures[i].error = None /\ futures[i].logs = <<>>}

\* fetch_single_log is running in these threads
InFlight == {w \in Threads : wphase[w] = "fetch"}

\* C1: in every returned result, jobs_processed + jobs_skipped = total_jobs.
C1_ProcessedPlusSkipped ==
  bpc = "done" =>
    /\ Stats.total_jobs = Len(jobs)
    /\ Stats.jobs_processed + Stats.jobs_skipped = Stats.total_jobs

C1_Witness ==
  /\ bpc = "done"
  /\ Stats.jobs_skipped >= 1
  /\ Stats.jobs_processed >= 2
  /\ EmptyPositions # {}

\* C2: for either value of skip_empty, every job whose fetch set error is counted
\* in jobs_failed and is in the jobs list of the returned result.
C2_FailedCountedAndReported ==
  bpc = "done" =>
    /\ Stats.jobs_failed = Cardinality(FailedPositions)
    /\ \A i \in FailedPositions : IsReported(jobs[i])

\* C3: with skip_empty, every job whose fetch succeeded with an empty text is
\* counted as skipped, not as processed or failed, and is not in the jobs list.
C3_EmptySkipped ==
  (bpc = "done" /\ skip_empty) =>
    /\ \A i \in EmptyPositions : ~IsReported(jobs[i])
    /\ Stats.jobs_skipped >= Cardinality(EmptyPositions)
    /\ Stats.jobs_processed <= Len(jobs) - Cardinality(EmptyPositions)

\* C4: the jobs list of the returned result is in input order, whatever the
\* order in which the workers completed.
C4_InputOrder ==
  bpc = "done" =>
    \A k, l \in 1..Len(results.jobs) :
      k < l => \E i, j \in 1..Len(jobs) :
                 i < j /\ jobs[i] = ReportedIds[k] /\ jobs[j] = ReportedIds[l]

\* C10: at every moment at most `parallel` fetches are in flight.
C10_BoundedInFlight == Cardinality(InFlight) <= parallel

C10_Witness ==
  /\ Cardinality(InFlight) = parallel
  /\ parallel >= 2
  /\ queue # <<>>

RECURSIVE SumBytes(_)
\* the sum of log_size_bytes over a list of results
SumBytes(rs) == IF rs = <<>> THEN 0 ELSE Head(rs).log_size_bytes + SumBytes(Tail(rs))

RECURSIVE SumLines(_)
\* the sum of log_lines over a list of results
SumLines(rs) == IF rs = <<>> THEN 0 ELSE Head(rs).log_lines + SumLines(Tail(rs))

\* C12: in every returned result the two totals are the sums over the jobs list,
\* the jobs list holds each fetched result that was not skipped exactly once
\* (as its worker returned it), and jobs_processed is the length of that list.
C12_ExactStatistics ==
  bpc = "done" =>
    /\ Stats.total_log_size_bytes = SumBytes(results.jobs)
    /\ Stats.total_lines = SumLines(results.jobs)
    /\ Stats.jobs_processed = Len(results.jobs)
    /\ \A k \in 1..Len(results.jobs) :
         \E i \in 1..Len(jobs) : results.jobs[k] = futures[i] /\ jobs[i] = ReportedIds[k]
    /\ \A k, l \in 1..Len(results.jobs) : k # l => ReportedIds[k] # ReportedIds[l]
    /\ \A i \in 1..Len(jobs) :
         IsReported(jobs[i]) <=> ~(skip_empty /\ futures[i].logs = NoneText)

C12_Witness ==
  /\ bpc = "done"
  /\ Len(results.jobs) = 2
  /\ Stats.jobs_skipped = 1
  /\ Stats.total_lines = 3
  /\ Stats.total_log_size_bytes = 4
  /\ ReportedIds = <<3, 1>>

\* C13: when the fetch of one job never returns and every other fetch returns,
\* the fetch of each other job is eventually started, completes and has its
\* completion reported (its progress line printed, its future done).
C13_OthersCompleteDespiteStall ==
  <>(\A i \in 1..Len(jobs) : i # stalled => futures[i] # Pending)

\* the threads inside the "with lock" block of fetch_with_progress
InLock == {w \in Threads : wphase[w] = "locked"}

\* C22: each completed fetch increments the progress counter exactly once under
\* mutual exclusion: at most one thread is inside the lock, every progress line
\* shows the count one above the line before it (1..total, none repeated or
\* skipped), and the counter equals the number of jobs when the batch finishes.
C22_ProgressCountsEachFetchOnce ==
  [][/\ Cardinality({w \in Threads : wphase'[w] = "locked"}) <= 1
     /\ (\E w \in InLock : wphase'[w] = "idle")
          => (progress' = progress + 1 /\ progress' \in 1..Len(jobs))
     /\ progress' # progress => \E w \in InLock : wphase'[w] = "idle"
     /\ bpc' = "done" => progress' = Len(jobs)]_vars

C22_Witness ==
  /\ bpc = "done"
  /\ parallel >= 2
  /\ progress = 3
  /\ Len(jobs) = 3
  /\ job_results = <<2, 1, 3>>
\* ------------------------------------------------------ claims: watch loop
\* the terminal statuses as the specification lists them
TerminalSet == {"success", "failed", "canceled", "skipped"}

\* C5: without a watch pattern, the tick whose pipeline read gave a terminal
\* status ends the loop: the check of that tick stops it with the terminal
\* message, no sleep follows the read, and once stopped no read of the remote
\* and no sleep happens any more.
C5_StopsOnTerminalTick ==
  [][/\ (watch_pattern = NoPattern /\ status \in TerminalSet) => sleeps' = sleeps
     /\ (watch_pattern = NoPattern /\ status \in TerminalSet
           /\ wpc = "check" /\ wpc' # "check")
          => (wpc' = "stopped" /\ outcome' = "terminal" /\ reads' = reads)
     /\ wpc = "stopped" => (wpc' = "stopped" /\ reads' = reads /\ sleeps' = sleeps)
    ]_vars

C5_Witness ==
  /\ watch_pattern = NoPattern
  /\ wpc = "stopped"
  /\ outcome = "terminal"
  /\ rpipe = "canceled"
  /\ iteration >= 1
  /\ sleeps = iteration

\* the transitions between snapshot A and job list B as the claim defines them
Transitions(A, B) ==
  {[id |-> B[k].id, prev_status |-> A.jobs[B[k].id].status, current_status |-> B[k].status] :
     k \in {n \in 1..Len(B) : B[n].id \in DOMAIN A.jobs
                               /\ A.jobs[B[n].id].status # B[n].status}}

ReportedTransitions ==
  {[id |-> changed_jobs[k].job.id, prev_status |-> changed_jobs[k].prev_status,
    current_status |-> changed_jobs[k].current_status] : k \in 1..Len(changed_jobs)}

\* C6: the transition list of a tick is exactly the jobs present in the previous
\* snapshot and in the current list whose status differs, each once, with both
\* statuses; a job new in the list is not reported; the first tick reports nothing.
C6_DiffExact ==
  wpc = "stages" =>
    /\ ReportedTransitions = Transitions(previous_jobs, all_jobs)
    /\ Len(changed_jobs) = Cardinality(Transitions(previous_jobs, all_jobs))
    /\ \A k \in 1..Len(changed_jobs) : changed_jobs[k].job.id \in DOMAIN previous_jobs.jobs
    /\ iteration = 0 => changed_jobs = <<>>

C6_Witness ==
  /\ wpc = "stages"
  /\ Len(changed_jobs) = 1
  /\ Len(all_jobs) = 2
  /\ \E k \in 1..Len(all_jobs) : all_jobs[k].id \notin DOMAIN previous_jobs.jobs

\* the positions of the list whose job name the pattern matches
MatchingPositions(job_list, pattern) ==
  {k \in 1..Len(job_list) : FnMatch(job_list[k].name, pattern)}

\* C7: check_pattern_completion returns all_complete exactly when some job name
\* matches and every matching job has a terminal status; then completed = total
\* = the number of matching jobs, whatever the other jobs' statuses.
C7_PatternCompletion ==
  wpc = "pattern_done" =>
    LET M == MatchingPositions(all_jobs, watch_pattern)
    IN /\ all_complete <=> (M # {} /\ \A k \in M : all_jobs[k].status \in TerminalSet)
       /\ all_complete => (stats.completed = Cardinality(M) /\ stats.total = Cardinality(M))

C7_Witness ==
  /\ wpc = "pattern_done"
  /\ all_complete
  /\ stats.total = 2
  /\ stats.completed = 2
  /\ \E k \in 1..Len(all_jobs) :
       /\ k \notin MatchingPositions(all_jobs, watch_pattern)
       /\ all_jobs[k].status \notin TerminalSet
  /\ \E k \in MatchingPositions(all_jobs, watch_pattern) : all_jobs[k].status = "canceled"

C9_CompletedOnlyWhenAllTerminal ==
  [][(outcome # "completed" /\ outcome' = "completed") =>
       /\ \E id \in WatchJobIds : Listed(rjobs[id]) /\ FnMatch(JobName(id), watch_pattern)
       /\ \A id \in WatchJobIds :
            (Listed(rjobs[id]) /\ FnMatch(JobName(id), watch_pattern))
              => rjobs[id] \in TerminalSet
    ]_vars

\* a job that was not there on the tick before matches, is not terminal, and the
\* check of this tick kept the loop waiting although the other match is terminal
C9_Witness ==
  /\ watch_pattern = <<"d", "*">>
  /\ wpc = "sleep"
  /\ outcome = "none"
  /\ ~previous_jobs.is_none
  /\ 1 \in DOMAIN previous_jobs.jobs
  /\ 2 \notin DOMAIN previous_jobs.jobs
  /\ rjobs[1] \in TerminalSet
  /\ Listed(rjobs[2]) /\ rjobs[2] \notin TerminalSet
  /\ stats.total = 2
  /\ stats.completed = 1

\* the ids of the tick's snapshot whose job name the pattern matches
SnapshotMatches == {id \in DOMAIN current_jobs.jobs :
                      FnMatch(current_jobs.jobs[id].name, watch_pattern)}

\* C23: the job snapshot and the pattern completion check of one tick are taken
\* from a single read of the remote: the check's counts are those of the jobs of
\* the tick's snapshot, whatever the remote does during the tick.
C23_TickFromOneRead ==
  (watch_pattern # NoPattern /\ wpc \in {"sleep", "note"}) =>
    IF SnapshotMatches = {}
    THEN stats.error = "no_matches"
    ELSE /\ stats.total = Cardinality(SnapshotMatches)
         /\ stats.completed =
              Cardinality({id \in SnapshotMatches :
                             current_jobs.jobs[id].status \in TerminalSet})
\* C24: a user interrupt stops the watch loop at once (no read, no report and no
\* sleep follows it); the run prints "reached terminal status" only at a check
\* whose tick read a terminal pipeline status and "all matching jobs completed"
\* only at a check that found every matching job terminal; whenever the loop is
\* at its sleep, the report of every tick so far has been emitted in full.
C24_InterruptStopsCleanly ==
  [][/\ (outcome = "none" /\ outcome' = "interrupted")
          => (wpc' = "stopped" /\ reads' = reads /\ sleeps' = sleeps /\ reports' = reports)
     /\ wpc = "stopped"
          => (wpc' = "stopped" /\ reads' = reads /\ sleeps' = sleeps /\ outcome' = outcome)
     /\ (outcome # "terminal" /\ outcome' = "terminal")
          => (watch_pattern = NoPattern /\ wpc = "check" /\ status \in TerminalSet)
     /\ (outcome # "completed" /\ outcome' = "completed")
          => /\ wpc = "check"
             /\ \E id \in WatchJobIds :
                  Listed(rjobs[id]) /\ FnMatch(JobName(id), watch_pattern)
             /\ \A id \in WatchJobIds :
                  (Listed(rjobs[id]) /\ FnMatch(JobName(id), watch_pattern))
                    => rjobs[id] \in TerminalSet
     /\ wpc' = "sleep" => reports' = iteration' + 1
     /\ (wpc' = "pipeline" /\ sleeps' > sleeps) => reports' = iteration'
    ]_vars

\* interrupted at the sleep of the second tick, the remote pipeline being
\* terminal by then although no tick has read it so
C24_Witness ==
  /\ wpc = "stopped"
  /\ outcome = "interrupted"
  /\ watch_pattern = NoPattern
  /\ rpipe \in TerminalSet
  /\ reports = 2
  /\ iteration = 1
  /\ sleeps = 1
\* the statuses of the remote jobs that the watch pattern matches
MatchingRemote == {id \in WatchJobIds :
                     Listed(rjobs[id]) /\ FnMatch(JobName(id), watch_pattern)}

\* C25: the two termination modes exclude each other. With a watch pattern the
\* check of a tick stops the loop exactly when every matching job is terminal
\* (at least one matching) or the no-match counter reaches its limit, whatever
\* the pipeline's status; without one it stops exactly when the pipeline's
\* status is terminal, whatever the jobs' statuses.
C25_ModesExclusive ==
  [][(wpc = "check" /\ wpc' # "check") =>
       IF watch_pattern # NoPattern
       THEN /\ outcome' \in {"none", "completed", "no_matches"}
            /\ wpc' \in {"note", "stopped"} <=>
                 \/ MatchingRemote # {} /\ \A id \in MatchingRemote : rjobs[id] \in TerminalSet
                 \/ MatchingRemote = {} /\ no_match_iterations + 1 >= 5
            /\ outcome' = "completed" <=> (MatchingRemote # {} /\ wpc' = "note")
            /\ outcome' = "no_matches" <=> (MatchingRemote = {} /\ wpc' = "stopped")
       ELSE /\ outcome' \in {"none", "terminal"}
            /\ wpc' = "stopped" <=> status \in TerminalSet
            /\ outcome' = "terminal" <=> status \in TerminalSet
            /\ wpc' \in {"stopped", "sleep"}
    ]_vars

\* a pattern watch that goes on although the tick read a terminal pipeline
\* status, a matching job not being terminal
C25_Witness ==
  /\ watch_pattern # NoPattern
  /\ wpc = "sleep"
  /\ status \in TerminalSet
  /\ stats.total >= 1
  /\ stats.completed < stats.total

\* C26: the loop keeps one step of memory: the diff of a tick is computed against
\* the job list read on the tick before and against no older one, so a change
\* of a job present at both ticks is reported on the tick that first reads it and
\* not again while the status stays.
C26_OneStepMemory ==
  [][(wpc = "jobs" /\ wpc' = "stages") =>
       /\ ReportedTransitions' = Transitions(tick_jobs, all_jobs')
       /\ Len(changed_jobs') = Cardinality(Transitions(tick_jobs, all_jobs'))
       /\ \A k \in 1..Len(all_jobs') :
            (/\ all_jobs'[k].id \in DOMAIN tick_jobs.jobs
             /\ tick_jobs.jobs[all_jobs'[k].id].status = all_jobs'[k].status)
              => \A c \in 1..Len(changed_jobs') : changed_jobs'[c].job.id # all_jobs'[k].id
    ]_vars

\* the third tick reports one job's change from "pending", the status the
\* second tick's snapshot holds for it, and is silent about the other job
C26_Witness ==
  /\ wpc = "stages"
  /\ iteration = 2
  /\ Len(all_jobs) = 2
  /\ Len(changed_jobs) = 1
  /\ changed_jobs[1].prev_status = "pending"
  /\ changed_jobs[1].prev_status = previous_jobs.jobs[changed_jobs[1].job.id].status
\* C29: a watch with a pattern stops (as completed or as no-match) after
\* finitely many ticks once the pipeline is terminal and no job status changes
\* any more.
C29_SettledWatchStops ==
  <>(wpc = "stopped" /\ outcome \in {"completed", "no_matches"})
\* ------------------------------------------------- claims: filtering a log
\* the text the filters gave in the last call
FilterOutput == IF fpath = "batch" THEN fresult.logs ELSE shown

FilterRan == fpc \in {"done", "retailed"}

\* the last n lines of a list of lines, all of them when there are fewer
KeepLast(lines, n) ==
  LET m == IF n < Len(lines) THEN n ELSE Len(lines)
  IN [i \in 1..m |-> lines[Len(lines) - m + i]]

\* the lines within radius c of a line the pattern matches
ContextWindows(lines, pattern, ignore_case, c) ==
  {j \in 1..Len(lines) :
     \E i \in 1..Len(lines) :
       ReSearch(pattern, lines[i], ignore_case) /\ j - i <= c /\ i - j <= c}

\* tail first, then pattern match with context, as the specification orders them
TailThenGrep(logs, a) ==
  LET tailed == KeepLast(Split(logs), a.tail)
  IN Join(PickLines(tailed, ContextWindows(tailed, a.grep, a.ignore_case, a.context), 1))

\* C14: the match count stored for a job is the number of matches in the log
\* text before any filter: it does not depend on tail or context.
C14_MatchCountPreFilter ==
  (FilterRan /\ fpath = "batch" /\ fargs.grep # None /\ PatternCompiles(fargs.grep)
     /\ fresult.error = None)
    => fresult.error_matches = ReFindallCount(fargs.grep, raw_logs, fargs.ignore_case)

\* C15: with a grep pattern that is not a valid regular expression the fetch does
\* not fail: error is not set and the result carries the log text, unfiltered by
\* the pattern, on the batch path and on the single-job path.
C15_InvalidRegexFallsBack ==
  (FilterRan /\ fargs.grep # None /\ ~PatternCompiles(fargs.grep)) =>
    /\ fpath = "batch" =>
         /\ fresult.error = None
         /\ fresult.logs # NoneText
         /\ fargs.tail = 0 => fresult.logs = raw_logs
    /\ (fpath = "single" /\ ~IsBlank(raw_logs) /\ fargs.tail = 0) => shown = raw_logs

\* C16: with a tail count and a pattern both requested, the output is the
\* matching lines (with context) among the last N lines, on both paths.
C16_TailBeforeGrep ==
  (FilterRan /\ fargs.tail # 0 /\ fargs.grep # None /\ PatternCompiles(fargs.grep)
     /\ FilterOutput # NoneText)
    => FilterOutput = TailThenGrep(raw_logs, fargs)

\* C17: tail alone gives the last N lines of the log, the whole log when it has
\* at most N lines, and tailing that output again with N leaves it unchanged.
C17_TailIdempotent ==
  (FilterRan /\ fargs.tail # 0 /\ fargs.grep = None /\ FilterOutput # NoneText) =>
    /\ Split(FilterOutput) = KeepLast(Split(raw_logs), fargs.tail)
    /\ Len(Split(raw_logs)) <= fargs.tail => FilterOutput = raw_logs
    /\ fpc = "retailed" => retail = FilterOutput

C17_Witness ==
  /\ fpc = "retailed"
  /\ fargs.tail = 2
  /\ Len(Split(raw_logs)) = 3
  /\ retail # raw_logs
  /\ Len(retail) = 2

\* C18: running the filters again on the same log with a larger context radius
\* keeps every line position that the smaller radius kept.
C18_ContextMonotonic ==
  [][(fpc = "call" /\ fpc' = "done" /\ fcalls >= 1)
       => (fargs.context >= 1 /\ matching_indices \subseteq matching_indices')]_vars

C18_Witness ==
  /\ fpc = "done"
  /\ fcalls = 3
  /\ fargs.context = 2
  /\ fargs.tail = 0
  /\ matching_indices = {1, 2, 3}
  /\ raw_logs = <<"e", NL, NL>>

\* C21: a job that produced no output has, in its fetch result, log text None
\* and error None; a fetch error is told apart from it by its error being set.
C21_NoOutputIsNone ==
  (FilterRan /\ fpath = "batch" /\ raw_logs = <<>>) =>
    /\ fresult.logs = NoneText
    /\ fresult.error = None

\* C30: in every result of fetch_single_log the log text is None exactly when
\* error is set: never a log text together with an error, never neither.
C30_LogsNoneIffError ==
  (FilterRan /\ fpath = "batch") =>
    (fresult.logs = NoneText <=> fresult.error # None)
\* ------------------------------------------------ claims: get_logs.py batch
\* C11: a batch command line with --parallel above 10 is rejected by parse_args:
\* no API call is issued, no job list is read, no fetch is submitted or started.
C11_CeilingRejectedBeforeFetch ==
  (cpc # "idle" /\ args.parallel > 10) =>
    /\ cpc \in {"parse", "rejected"}
    /\ net_calls = 0
    /\ jobs = <<>>
    /\ submitted = 0
    /\ \A w \in Threads : wphase[w] = "idle"

C11_Witness ==
  /\ cpc = "rejected"
  /\ args.pipeline
  /\ args.parallel = 11

\* C19: the manifest has exactly one entry per job of the result's jobs list,
\* in the same order with the same ids, byte counts and line counts.
C19_ManifestMatchesResult ==
  manifest.saved =>
    /\ Len(manifest.jobs) = Len(results.jobs)
    /\ \A k \in 1..Len(results.jobs) :
         /\ manifest.jobs[k].job_id = results.jobs[k].job_id
         /\ manifest.jobs[k].log_size_bytes = results.jobs[k].log_size_bytes
         /\ manifest.jobs[k].log_lines = results.jobs[k].log_lines
         /\ Cardinality({l \in 1..Len(manifest.jobs) :
                           manifest.jobs[l].job_id = results.jobs[k].job_id}) = 1

C19_Witness ==
  /\ manifest.saved
  /\ Len(manifest.jobs) = 2
  /\ writes # <<>>
  /\ \E k \in 1..2 : manifest.jobs[k].log_size_bytes = 0
  /\ \E k \in 1..2 : manifest.jobs[k].log_size_bytes = 3 /\ manifest.jobs[k].log_lines = 2

\* the paths of the three indices for a job result
IndexPaths(r) ==
  {[index |-> "all", sub |-> "", file |-> LogFileName(r.job_id)],
   [index |-> "by-status", sub |-> BatchJobStatus(r.job_id), file |-> LogFileName(r.job_id)],
   [index |-> "by-stage", sub |-> BatchJobStage(r.job_id), file |-> LogFileName(r.job_id)]}

\* C20: after save_logs_to_files every job of the result's jobs list has one
\* file under each of all/, by-status/<status>/ and by-stage/<stage>/, the three
\* with its log as content, and no path is written twice.
C20_OneFilePerIndex ==
  cpc \in {"saved", "exit"} /\ bpc = "done" /\ results.jobs # <<>> =>
    /\ \A k \in 1..Len(results.jobs) :
         \A p \in IndexPaths(results.jobs[k]) :
           \E n \in 1..Len(writes) :
             writes[n].path = p /\ writes[n].content = results.jobs[k].logs
    /\ \A n, m \in 1..Len(writes) : n # m => writes[n].path # writes[m].path

\* the directories the run's job set calls for
NeededDirs ==
  {Dir("all", ""), Dir("by-status", ""), Dir("by-stage", "")}
    \cup {Dir("by-status", BatchJobStatus(jobs[k])) : k \in 1..Len(jobs)}
    \cup {Dir("by-stage", BatchJobStage(jobs[k])) : k \in 1..Len(jobs)}

\* C27: every directory a log file is written into exists before the first
\* write: the structure is created before any write, from the statuses and the
\* stages of the job set, and creating it over an existing structure raises
\* nothing and removes nothing.
C27_DirectoriesBeforeWrites ==
  [][/\ writes' # writes =>
          \A n \in 1..Len(writes') :
            Dir(writes'[n].path.index, writes'[n].path.sub) \in dirs.made
     /\ dirs' # dirs =>
          /\ writes = <<>> /\ writes' = <<>>
          /\ ~dirs'.failed
          /\ dirs'.made = dirs.made \cup NeededDirs \cup {OutputDir}
     /\ (cpc = "fetcher" /\ cpc' # "fetcher") =>
          /\ ~dirs'.failed
          /\ NeededDirs \subseteq dirs'.made
          /\ NeededDirs \cup {OutputDir} \subseteq dirs.made => dirs' = dirs
    ]_vars

\* a finished two-job run: six files are written, the failed job's under
\* by-status/failed, with by-status/failed and by-stage/test existing
C27_Witness ==
  /\ cpc = "exit"
  /\ Len(writes) = 6
  /\ Dir("by-status", "failed") \in dirs.made
  /\ Dir("by-stage", "test") \in dirs.made
  /\ \E n \in 1..Len(writes) : writes[n].path.sub = "failed"

\* C28: every manifest entry's log_file names a file that save_logs_to_files
\* wrote in the same run: for every job of the result's jobs list the file
\* all/job-<id>-<sanitized-name>.log exists after the run.
C28_ManifestFilesExist ==
  manifest.saved =>
    /\ \A k \in 1..Len(manifest.jobs) :
         \E n \in 1..Len(writes) : writes[n].path = manifest.jobs[k].log_file
    /\ \A k \in 1..Len(results.jobs) :
         \E n \in 1..Len(writes) :
           writes[n].path = [index |-> "all", sub |-> "",
                             file |-> LogFileName(results.jobs[k].job_id)]
====
